---- MODULE Spec2Model ----
(***************************************************************************)
(* The promptfoo provider adapters of this repository:                     *)
(*   ClaudeCliProvider  (claude-cli-provider.js)   spawns `claude -p <p>`   *)
(*   CodexProvider      (codex-provider.js)        spawns `codex exec -`    *)
(*   ClaudeCodeProvider (claude-code-provider.js)  calls the Anthropic SDK  *)
(*                                                                         *)
(* One callApi invocation is one element of Calls.  The host is a single   *)
(* Node.js event loop: a step of the model is one callback (a listener      *)
(* together with the promise continuations it makes runnable), which runs   *)
(* to completion before the next callback starts.                          *)
(*                                                                         *)
(* Text is a sequence of one-character strings; the fixed segments of a    *)
(* template literal are kept as single elements of such a sequence.  What   *)
(* a child writes to a pipe is a sequence of bytes (numbers), turned into   *)
(* text by BufferToString.                                                 *)
(***************************************************************************)
EXTENDS Integers, Sequences, FiniteSets, TLC

\* ------------------------------------------------------------------ bounds

\* The most bytes the children of one run write to their stdout and stderr,
\* all together.
MaxBytes == 3

\* The invocations of one run, numbered in the order they are made; they
\* may overlap in time.
Calls == {1, 2}

\* ------------------------------------------------------------- JS values

\* The `code` argument of a 'close' listener is a number, or null when the
\* child was ended by a signal.
Null == [type |-> "null"]

Num(n) == [type |-> "number", value |-> n]

\* Bytes a child may write to stdout: space, 'a', and the two bytes of the
\* UTF-8 encoding of U+00E9 (0xC3 0xA9).
OutBytes == {32, 97, 195, 169}

\* Bytes a child may write to stderr: 'E', 'r'.
ErrBytes == {69, 114}

Replacement == "\\uFFFD"

\* One ASCII byte as a character.
AsciiChar(b) ==
  CASE b = 32 -> " "
    [] b = 10 -> "\n"
    [] b = 69 -> "E"
    [] b = 97 -> "a"
    [] b = 114 -> "r"
    [] OTHER -> "?"

\* Buffer.prototype.toString() (UTF-8): an ASCII byte is its character, the
\* pair C3 A9 is one character, and a lead byte without its continuation, or
\* a continuation byte without its lead, decodes to U+FFFD.
RECURSIVE BufferToString(_)
BufferToString(data) ==
  IF data = <<>> THEN <<>>
  ELSE IF Head(data) < 128
    THEN <<AsciiChar(Head(data))>> \o BufferToString(Tail(data))
  ELSE IF Head(data) = 195 /\ Len(data) >= 2 /\ data[2] = 169
    THEN <<"e'">> \o BufferToString(Tail(Tail(data)))
  ELSE <<Replacement>> \o BufferToString(Tail(data))

\* The characters String.prototype.trim() removes.
IsWhiteSpace(ch) == ch \in {" ", "\n", "\t"}

RECURSIVE TrimStart(_)
TrimStart(s) ==
  IF s # <<>> /\ IsWhiteSpace(Head(s)) THEN TrimStart(Tail(s)) ELSE s

RECURSIVE TrimEnd(_)
TrimEnd(s) ==
  IF s # <<>> /\ IsWhiteSpace(s[Len(s)])
    THEN TrimEnd(SubSeq(s, 1, Len(s) - 1))
    ELSE s

\* A trim that forgets the trailing side.
TrimLeadingOnly(s) == TrimStart(s)

\* String.prototype.trim()
Trim(s) == TrimEnd(TrimStart(s))

\* The decimal digits of a natural number.
RECURSIVE Digits(_)
Digits(n) ==
  LET d == <<"0", "1", "2", "3", "4", "5", "6", "7", "8", "9">>[(n % 10) + 1]
  IN IF n < 10 THEN <<d>> ELSE Digits(n \div 10) \o <<d>>

\* `${code}` in a template literal: a number as its decimal text, null as
\* the text "null".
NumberToString(code) ==
  IF code = Null THEN <<"n", "u", "l", "l">>
  ELSE IF code.value < 0 THEN <<"-">> \o Digits(0 - code.value)
  ELSE Digits(code.value)

\* ------------------------------------------------------ the three adapters

ClaudeCli == "claude-cli"
CodexCli == "codex-cli"
ClaudeCode == "claude-code-subscription"

CliProviders == {ClaudeCli, CodexCli}

Providers == CliProviders \cup {ClaudeCode}

\* An object without properties ({}), and `options.config || {}`.
EmptyObject == <<>>

ConfigOf(options) ==
  IF "config" \in DOMAIN options THEN options.config ELSE EmptyObject

\* `options.label || dflt`: a label that is absent or '' gives the default.
LabelOf(options, dflt) ==
  IF "label" \in DOMAIN options /\ options.label # <<>> THEN options.label ELSE dflt

\* constructor(options = {}) of each adapter: the fields of the new object.
ClaudeCliConstructor(options) ==
  [config |-> ConfigOf(options), label |-> LabelOf(options, <<"Claude CLI">>)]

CodexConstructor(options) ==
  [config |-> ConfigOf(options), label |-> LabelOf(options, <<"Codex">>)]

\* A string value, to tell it from null.
Str(s) == [type |-> "string", value |-> s]

\* `process.env.NAME || rest`: the value of a variable that is set and not
\* '', otherwise rest.
EnvOr(environ, name, rest) ==
  IF name \in DOMAIN environ /\ environ[name] # <<>> THEN Str(environ[name]) ELSE rest

\* The options of `new Anthropic({...})` in the constructor.
AnthropicOptions(environ) ==
  [apiKey |-> EnvOr(environ, "ANTHROPIC_API_KEY", Null),
   authToken |-> EnvOr(environ, "ANTHROPIC_AUTH_TOKEN",
                   EnvOr(environ, "CLAUDE_CODE_OAUTH_TOKEN", Null)),
   dangerouslyAllowBrowser |-> FALSE]

ClaudeCodeConstructor(options, environ) ==
  [config |-> ConfigOf(options),
   label |-> LabelOf(options, <<"Claude Code">>),
   model |-> IF "model" \in DOMAIN ConfigOf(options) /\ ConfigOf(options).model # <<>>
               THEN ConfigOf(options).model
               ELSE <<"claude-sonnet-4-20250514">>,
   client |-> AnthropicOptions(environ)]

Constructor(p, options, environ) ==
  IF p = ClaudeCli THEN ClaudeCliConstructor(options)
  ELSE IF p = CodexCli THEN CodexConstructor(options)
  ELSE ClaudeCodeConstructor(options, environ)

\* id() of each adapter, as a method of the object `this`.
ClaudeCliId(this) == "claude-cli"

\* An id() copied from the Claude CLI adapter and left as it was.
CodexIdOfClaudeCli(this) == "claude-cli"

CodexId(this) == "codex-cli"

ClaudeCodeId(this) == "claude-code-subscription"

Id(p, this) ==
  IF p = ClaudeCli THEN ClaudeCliId(this)
  ELSE IF p = CodexCli THEN CodexId(this)
  ELSE ClaudeCodeId(this)

\* A callApi that appends the variables of the context to the prompt.
ExecutorPromptWithVars(prompt, context, options) ==
  IF "vars" \in DOMAIN context THEN prompt \o context.vars ELSE prompt

\* A callApi that keeps the last prompt in the configuration of the adapter.
ThisAfterCallApiKeepsPrompt(this, prompt) ==
  [this EXCEPT !.config = [lastPrompt |-> prompt]]

\* The adapter object after callApi has run: callApi, executeClaude and
\* executeCodex assign no field of `this`.
ThisAfterCallApi(this, prompt) == this

\* The prompt callApi(prompt, context, options) hands to its executor:
\* `this.executeClaude(prompt)`, `this.executeCodex(prompt)`.
ExecutorPrompt(prompt, context, options) == prompt

\* The argument of client.messages.create in ClaudeCodeProvider.callApi.
\* A temperature is counted in tenths (7 is 0.7).
ClaudeCodeRequest(this, prompt, context, options) ==
  [model |-> this.model,
   max_tokens |-> IF "max_tokens" \in DOMAIN this.config /\ this.config.max_tokens # 0
                    THEN this.config.max_tokens ELSE 2000,
   temperature |-> IF "temperature" \in DOMAIN this.config
                     THEN this.config.temperature ELSE 7,
   messages |-> <<[role |-> "user", content |-> prompt]>>]

\* The prompts the harness passes.
Prompts == {<<"a">>, <<" ", "b">>}

\* executeClaude: spawn('claude', ['-p', prompt], {stdio: ['inherit', 'pipe', 'pipe']})
ClaudeSpawn(prompt) ==
  [file |-> "claude", args |-> <<<<"-", "p">>, prompt>>,
   stdio |-> <<"inherit", "pipe", "pipe">>]

\* A Codex spawn that passes the prompt as an argument as well.
CodexSpawnPromptArg(prompt) ==
  [file |-> "codex", args |-> <<<<"e", "x", "e", "c">>, <<"-">>, prompt>>,
   stdio |-> <<"pipe", "pipe", "pipe">>]

\* executeCodex: spawn('codex', ['exec', '-'], {stdio: ['pipe', 'pipe', 'pipe']})
CodexSpawn(prompt) ==
  [file |-> "codex", args |-> <<<<"e", "x", "e", "c">>, <<"-">>>>,
   stdio |-> <<"pipe", "pipe", "pipe">>]

SpawnOf(p, prompt) == IF p = ClaudeCli THEN ClaudeSpawn(prompt) ELSE CodexSpawn(prompt)

\* What each adapter does with the child's stdin right after attaching its
\* listeners: codex.stdin.write(prompt); codex.stdin.end(); nothing in
\* executeClaude.
ClaudeStdinOps(prompt) == <<>>

CodexStdinOps(prompt) == <<[op |-> "write", data |-> prompt], [op |-> "end"]>>

StdinOpsOf(p, prompt) ==
  IF p = ClaudeCli THEN ClaudeStdinOps(prompt) ELSE CodexStdinOps(prompt)

\* The listeners executeCodex / executeClaude attach.  Neither attaches one
\* to the child's stdin stream.
ClaudeListeners == {"stdout.data", "stderr.data", "close", "error"}

CodexListeners == {"stdout.data", "stderr.data", "close", "error"}

ListenersOf(p) == IF p = ClaudeCli THEN ClaudeListeners ELSE CodexListeners

\* The statements of the promise executors, in program order.
DoSpawn == [op |-> "spawn"]

DoOn(event) == [op |-> "on", event |-> event]

DoStdinWrite == [op |-> "stdin.write"]

DoStdinEnd == [op |-> "stdin.end"]

ClaudeExecutor ==
  <<DoSpawn, DoOn("stdout.data"), DoOn("stderr.data"), DoOn("close"), DoOn("error")>>

\* An executeCodex that writes the prompt right after the spawn.
CodexExecutorWritesFirst ==
  <<DoSpawn, DoStdinWrite, DoStdinEnd,
    DoOn("stdout.data"), DoOn("stderr.data"), DoOn("close"), DoOn("error")>>

CodexExecutor ==
  <<DoSpawn, DoOn("stdout.data"), DoOn("stderr.data"), DoOn("close"), DoOn("error"),
    DoStdinWrite, DoStdinEnd>>

\* What the executor of adapter p does when spawn() returns, and when it
\* throws.
ExecutorOf(p, threw) ==
  IF threw THEN <<DoSpawn>>
  ELSE IF p = ClaudeCli THEN ClaudeExecutor ELSE CodexExecutor

\* A promise: pending, or settled for good.
Pending == [state |-> "pending"]

Resolve(value) == [state |-> "fulfilled", value |-> value]

Reject(message) == [state |-> "rejected", message |-> message]

\* A settle function that lets a later call win.
SettleLastWins(p, outcome) == outcome

\* resolve()/reject() of a promise: the first call settles it, later calls
\* do nothing.
Settle(p, outcome) == IF p.state = "pending" THEN outcome ELSE p

NoStderr == <<"(no stderr output)">>

\* A 'close' listener that tests `if (code)`: null passes for success.
ClaudeOnCloseFalsyIsSuccess(code, out, err) ==
  IF code # Num(0) /\ code # Null
    THEN LET errorMsg == IF err # <<>> THEN err ELSE NoStderr
         IN Reject(<<"Claude exited with code ">> \o NumberToString(code)
                   \o <<": ">> \o errorMsg)
    ELSE Resolve(Trim(out))

\* The 'close' listener of executeClaude.
ClaudeOnClose(code, out, err) ==
  IF code # Num(0)
    THEN LET errorMsg == IF err # <<>> THEN err ELSE NoStderr
         IN Reject(<<"Claude exited with code ">> \o NumberToString(code)
                   \o <<": ">> \o errorMsg)
    ELSE Resolve(Trim(out))

\* A 'close' listener whose message leaves the diagnostic text out.
CodexOnCloseNoStderr(code, out, err) ==
  IF code # Num(0)
    THEN Reject(<<"Codex exited with code ">> \o NumberToString(code))
    ELSE Resolve(Trim(out))

\* A 'close' listener that takes any stderr text for a failure.
CodexOnCloseStderrFails(code, out, err) ==
  IF code # Num(0) \/ err # <<>>
    THEN Reject(<<"Codex exited with code ">> \o NumberToString(code)
                \o <<": ">> \o err)
    ELSE Resolve(Trim(out))

\* The 'close' listener of executeCodex.
CodexOnClose(code, out, err) ==
  IF code # Num(0)
    THEN Reject(<<"Codex exited with code ">> \o NumberToString(code)
                \o <<": ">> \o err)
    ELSE Resolve(Trim(out))

OnClose(p, code, out, err) ==
  IF p = ClaudeCli THEN ClaudeOnClose(code, out, err)
  ELSE CodexOnClose(code, out, err)

\* The 'error' listeners.
ClaudeOnError(message) == Reject(<<"Failed to spawn claude: ">> \o message)

CodexOnError(message) == Reject(<<"Failed to spawn codex: ">> \o message)

OnError(p, message) ==
  IF p = ClaudeCli THEN ClaudeOnError(message) ELSE CodexOnError(message)

ZeroUsage == [total |-> 0, prompt |-> 0, completion |-> 0]

\* A callApi whose failure record carries an empty output as well.
ClaudeCliCallApiWithOutput(settled) ==
  IF settled.state = "fulfilled"
    THEN [output |-> settled.value, tokenUsage |-> ZeroUsage]
    ELSE [output |-> <<>>, error |-> <<"Claude CLI error: ">> \o settled.message]

\* What callApi returns once the promise it awaits has settled.
ClaudeCliCallApi(settled) ==
  IF settled.state = "fulfilled"
    THEN [output |-> settled.value, tokenUsage |-> ZeroUsage]
    ELSE [error |-> <<"Claude CLI error: ">> \o settled.message]

CodexCallApi(settled) ==
  IF settled.state = "fulfilled"
    THEN [output |-> settled.value, tokenUsage |-> ZeroUsage]
    ELSE [error |-> <<"Codex CLI error: ">> \o settled.message]

\* ---- ClaudeCodeProvider.callApi (the HTTP adapter)

\* An extraction that takes the text of every block, whatever its type.
RECURSIVE TextsOfAllBlocks(_)
TextsOfAllBlocks(content) ==
  IF content = <<>> THEN <<>>
  ELSE <<Head(content).text>> \o TextsOfAllBlocks(Tail(content))

\* Array.prototype.filter((block) => block.type === 'text').map((block) => block.text)
RECURSIVE TextsOf(_)
TextsOf(content) ==
  IF content = <<>> THEN <<>>
  ELSE IF Head(content).type = "text"
    THEN <<Head(content).text>> \o TextsOf(Tail(content))
    ELSE TextsOf(Tail(content))

\* Array.prototype.join('\n')
RECURSIVE JoinLines(_)
JoinLines(texts) ==
  IF texts = <<>> THEN <<>>
  ELSE IF Len(texts) = 1 THEN Head(texts)
  ELSE Head(texts) \o <<"\n">> \o JoinLines(Tail(texts))

\* The message of the TypeError a property read on undefined throws.
TypeErrorReading(property) ==
  <<"Cannot read properties of undefined (reading '", property, "')">>

\* A response handler that reports the output tokens as the total.
ClaudeCodeOnResponseTotalIsOutput(response) ==
  IF "content" \notin DOMAIN response
    THEN [threw |-> TRUE, message |-> TypeErrorReading("filter")]
  ELSE IF "usage" \notin DOMAIN response
    THEN [threw |-> TRUE, message |-> TypeErrorReading("input_tokens")]
  ELSE [threw |-> FALSE,
        value |->
          [output |-> JoinLines(TextsOf(response.content)),
           tokenUsage |->
             [total |-> response.usage.output_tokens,
              prompt |-> response.usage.input_tokens,
              completion |-> response.usage.output_tokens]]]

\* The body of callApi's try block after the await: `response` is the
\* resolved value of client.messages.create.  A field the response lacks
\* is undefined, and reading a property of it throws.
ClaudeCodeOnResponse(response) ==
  IF "content" \notin DOMAIN response
    THEN [threw |-> TRUE, message |-> TypeErrorReading("filter")]
  ELSE IF "usage" \notin DOMAIN response
    THEN [threw |-> TRUE, message |-> TypeErrorReading("input_tokens")]
  ELSE [threw |-> FALSE,
        value |->
          [output |-> JoinLines(TextsOf(response.content)),
           tokenUsage |->
             [total |-> response.usage.input_tokens + response.usage.output_tokens,
              prompt |-> response.usage.input_tokens,
              completion |-> response.usage.output_tokens]]]

\* A callApi that hides the client's message behind a text of its own.
ClaudeCodeCallApiMasksMessage(outcome) ==
  LET done == IF outcome.kind = "response"
                THEN ClaudeCodeOnResponse(outcome.response)
                ELSE [threw |-> TRUE, message |-> outcome.message]
  IN IF done.threw
       THEN [error |-> <<"Claude Code error: ", "request failed">>]
       ELSE done.value

\* callApi of the HTTP adapter: `outcome` is how client.messages.create
\* ended, with a response or with a thrown error.
ClaudeCodeCallApi(outcome) ==
  LET done == IF outcome.kind = "response"
                THEN ClaudeCodeOnResponse(outcome.response)
                ELSE [threw |-> TRUE, message |-> outcome.message]
  IN IF done.threw
       THEN [error |-> <<"Claude Code error: ">> \o done.message]
       ELSE done.value

\* The record callApi of a CLI adapter returns for a settled promise.
CliCallApi(p, settled) ==
  IF p = ClaudeCli THEN ClaudeCliCallApi(settled) ELSE CodexCallApi(settled)

\* ------------------------------------------------------------ environment

\* How spawn() can fail.  The errors of AsyncSpawnErrors are reported by an
\* 'error' event of the child object, which a 'close' event with the negated
\* errno may follow; any other is thrown by spawn() itself.
AsyncSpawnErrors == {"ENOENT", "EACCES"}

SyncSpawnErrors == {"ENOMEM"}

Errno(e) == IF e = "ENOENT" THEN 2 ELSE IF e = "EACCES" THEN 13 ELSE 12

\* error.message of a failed spawn.
SpawnErrorMessage(file, e) == <<"spawn ", file, " ", e>>

\* The exit status of a child that ran: a code, or null after a signal.
ExitCodes == {Num(0), Num(1), Null}

\* The blocks of an API response, and the responses and errors of the client.
TextBlock(t) == [type |-> "text", text |-> t]

ToolBlock == [type |-> "tool_use", text |-> <<"x">>]

Contents ==
  {<<>>, <<ToolBlock>>, <<TextBlock(<<"h">>)>>,
   <<TextBlock(<<"h">>), ToolBlock, TextBlock(<<"i", " ">>)>>}

Usages == {[input_tokens |-> 0, output_tokens |-> 0], [input_tokens |-> 3, output_tokens |-> 4]}

HttpOutcomes ==
  {[kind |-> "response", response |-> [content |-> ct, usage |-> u]] :
     ct \in Contents, u \in Usages}
  \cup {[kind |-> "response", response |-> [usage |-> u]] : u \in Usages}
  \cup {[kind |-> "response", response |-> [content |-> ct]] : ct \in Contents}
  \cup {[kind |-> "throw", message |-> m] :
          m \in {<<"401 authentication_error">>, <<"429 rate_limit_error">>}}

\* ------------------------------------------------------------------ state

VARIABLES
  harness,     \* how the run is driven: "serial", "parallel", "echo", "config"
               \* (the adapters), or "script" (test-claude-direct.js)
  pc,          \* per call: "idle", "awaiting" (callApi suspended), "returned"
  provider,    \* per call: the adapter it was made on
  prompt,      \* per call: its prompt argument
  closure,     \* per call: `let stdout`, `let stderr` and the promise of the
               \* executor (HTTP: the promise of client.messages.create)
  ret,         \* per call: the record callApi returned
  spawned,     \* per call: the arguments of each spawn() it made, in order
  listeners,   \* per call: the listeners attached to its child
  stdinOps,    \* per call: what was done to the child's stdin
  child,       \* per call: the child process, as the operating system has it
  outChunks,   \* per call: the 'data' chunks of stdout delivered so far
  errChunks,   \* per call: the 'data' chunks of stderr delivered so far
  events,      \* per call: the child object's events delivered so far
  hostCrashed, \* the host process died of an uncaught exception
  script,      \* the state of one run of test-claude-direct.js
  executorLog, \* per call: what its promise executor did, in program order
  env,         \* process.env: the environment variables that are set
  ctorOptions, \* the options argument the adapters were constructed with
  instance,    \* per adapter: the fields of the adapter object (`this`)
  callArgs,    \* per call: its context and options arguments
  request      \* per call: the argument given to client.messages.create

vars ==
  <<harness, script, executorLog, pc, provider, prompt, closure, ret, spawned, listeners, stdinOps,
    child, outChunks, errChunks, events, hostCrashed, env, ctorOptions,
    instance, callArgs, request>>

NoRecord == [none |-> TRUE]

\* `let stdout = ''; let stderr = '';` and the new promise.
NewClosure == [stdout |-> <<>>, stderr |-> <<>>, promise |-> Pending]

\* child: start is "none" (nothing spawned), "running", "hung" (it runs and
\* will neither write nor exit any more), "exited", or the errno spawn
\* failed with; out and err are the bytes written to the pipes and not yet
\* delivered as 'data'; written counts all bytes written; stdinQueued says
\* that bytes written to stdin still wait in the host.
NoChild ==
  [start |-> "none", out |-> <<>>, err |-> <<>>, written |-> 0, code |-> Null,
   stdinQueued |-> FALSE]

\* The inputs of a run.  A serial harness makes one invocation, with any
\* prompt, any child and any API outcome of the sets above; a parallel
\* harness makes two, which may overlap, with different prompts and with
\* children and API outcomes of smaller sets.  An echo harness
\* makes one invocation whose external command is a stub that writes the
\* prompt it was given to its stdout and exits with code 0.
CallsOf(h) == IF h \in {"serial", "echo"} THEN {1} ELSE Calls

PromptsOf(h, c) ==
  IF h = "serial" THEN Prompts
  ELSE IF c = 1 THEN {<<"a">>} ELSE {<<" ", "b">>}

OutBytesOf(h) == IF h = "serial" THEN OutBytes ELSE {32, 97}

ErrBytesOf(h) == IF h = "serial" THEN ErrBytes ELSE {69}

SpawnOutcomesOf(h) ==
  IF h = "serial" THEN {"ok"} \cup AsyncSpawnErrors \cup SyncSpawnErrors
  ELSE {"ok", "ENOENT"}

ExitCodesOf(h) == IF h = "serial" THEN ExitCodes ELSE {Num(0), Num(1)}

HttpOutcomesOf(h) ==
  IF h = "serial" THEN HttpOutcomes
  ELSE {[kind |-> "response",
         response |-> [content |-> <<TextBlock(<<"h">>)>>,
                       usage |-> [input_tokens |-> 3, output_tokens |-> 4]]],
        [kind |-> "throw", message |-> <<"401 authentication_error">>]}

\* The context and options arguments of callApi.
CallArgValues ==
  {[context |-> [vars |-> <<"v">>], options |-> EmptyObject],
   [context |-> EmptyObject, options |-> [model |-> <<"o">>]]}

CallArgsOf(h) ==
  IF h \in {"serial", "config"} THEN CallArgValues
  ELSE {[context |-> [vars |-> <<"v">>], options |-> EmptyObject]}

\* The options the adapters are constructed with.
ConfigOptions ==
  {EmptyObject,
   [label |-> <<"L">>],
   [label |-> <<>>, config |-> EmptyObject],
   [config |-> [model |-> <<"m">>]],
   [config |-> [temperature |-> 0]],
   [config |-> [max_tokens |-> 0]],
   [label |-> <<"L">>, config |-> [model |-> <<"m">>, temperature |-> 10, max_tokens |-> 5]]}

CtorOptionsOf(h) == IF h = "config" THEN ConfigOptions ELSE {EmptyObject}

NoRequest == [none |-> TRUE]

\* test-claude-direct.js once its top-level code has run: the two lines of
\* the heading are printed, the child is spawned (`start` says how), the
\* listeners are attached, and the timer of 30000 ms is armed.
ScriptStart(start) ==
  [child |-> start, code |-> Null, out |-> <<>>, err |-> <<>>, written |-> 0,
   stdout |-> <<>>, stderr |-> <<>>,
   console |-> <<<<"Testing: claude -p \"Say hello in one word\"">>, <<"---">>>>,
   events |-> <<>>,
   timer |-> "armed",
   exitStatus |-> Null]

\* No run of the script.
NoScript == [none |-> TRUE]

ScriptStartsOf(h) ==
  IF h = "script" THEN {ScriptStart("running"), ScriptStart("ENOENT")}
  ELSE {NoScript}

\* The environment variables the HTTP adapter reads, and the environments
\* of a run: any of the three set or not.
EnvNames == {"ANTHROPIC_API_KEY", "ANTHROPIC_AUTH_TOKEN", "CLAUDE_CODE_OAUTH_TOKEN"}

EnvValue(name) ==
  IF name = "ANTHROPIC_API_KEY" THEN <<"sk-ant-api">>
  ELSE IF name = "ANTHROPIC_AUTH_TOKEN" THEN <<"auth-token">>
  ELSE <<"sk-ant-oat">>

Envs == {[name \in S |-> EnvValue(name)] : S \in SUBSET EnvNames}

EnvsOf(h) ==
  IF h = "config" THEN Envs
  ELSE {[name \in {"CLAUDE_CODE_OAUTH_TOKEN"} |-> EnvValue(name)]}

InitCalls ==
  /\ pc = [c \in Calls |-> "idle"]
  /\ provider = [c \in Calls |-> "none"]
  /\ prompt = [c \in Calls |-> <<>>]
  /\ closure = [c \in Calls |-> NewClosure]
  /\ ret = [c \in Calls |-> NoRecord]
  /\ spawned = [c \in Calls |-> <<>>]
  /\ listeners = [c \in Calls |-> {}]
  /\ executorLog = [c \in Calls |-> <<>>]
  /\ stdinOps = [c \in Calls |-> <<>>]
  /\ child = [c \in Calls |-> NoChild]
  /\ outChunks = [c \in Calls |-> <<>>]
  /\ errChunks = [c \in Calls |-> <<>>]
  /\ events = [c \in Calls |-> <<>>]
  /\ hostCrashed = FALSE
  /\ script \in ScriptStartsOf(harness)
  /\ env \in EnvsOf(harness)
  /\ ctorOptions \in CtorOptionsOf(harness)
  /\ instance = [p \in Providers |-> Constructor(p, ctorOptions, env)]
  /\ callArgs = [c \in Calls |-> [none |-> TRUE]]
  /\ request = [c \in Calls |-> NoRequest]

Init == harness = "serial" /\ InitCalls

InitParallel == harness = "parallel" /\ InitCalls

\* -------------------------------------------------------------- listeners
\* A listener is a function of the executors' closures: `cl` holds the
\* closure of every invocation in flight, `c` is the invocation whose child
\* the event belongs to.

\* A 'data' listener that keeps its text in a buffer all invocations share.
OnStdoutDataShared(cl, c, data) ==
  [k \in DOMAIN cl |-> [cl[k] EXCEPT !.stdout = @ \o BufferToString(data)]]

\* A 'data' listener that settles the promise with the first chunk.
OnStdoutDataResolves(cl, c, data) ==
  [cl EXCEPT ![c].stdout = @ \o BufferToString(data),
             ![c].promise = Settle(@, Resolve(Trim(BufferToString(data))))]

\* A 'data' listener that assigns the chunk instead of appending it.
OnStdoutDataOverwrites(cl, c, data) == [cl EXCEPT ![c].stdout = BufferToString(data)]

\* stdout.on('data', (data) => { stdout += data.toString(); })
OnStdoutData(cl, c, data) == [cl EXCEPT ![c].stdout = @ \o BufferToString(data)]

\* stderr.on('data', (data) => { stderr += data.toString(); })
OnStderrData(cl, c, data) == [cl EXCEPT ![c].stderr = @ \o BufferToString(data)]

\* on('close', (code) => { ... })
OnCloseEvent(cl, c, p, code) ==
  [cl EXCEPT ![c].promise = Settle(@, OnClose(p, code, cl[c].stdout, cl[c].stderr))]

\* An 'error' listener that leaves the promise to the 'close' listener.
OnErrorEventWaitsForClose(cl, c, p, message) == cl

\* on('error', (error) => { ... })
OnErrorEvent(cl, c, p, message) ==
  [cl EXCEPT ![c].promise = Settle(@, OnError(p, message))]

\* An executor that spawns its command twice.
SpawnsTwice(p, pr) == <<SpawnOf(p, pr), SpawnOf(p, pr)>>

\* The spawn() calls of one run of the executor: one.
SpawnsOf(p, pr) == <<SpawnOf(p, pr)>>

\* ---------------------------------------------------------------- actions

Delivered(c, name) == \E i \in DOMAIN events[c] : events[c][i].name = name

\* After a listener has run: an invocation whose promise it settled resumes
\* from its await and returns its record, before any other callback runs.
Resume(c) ==
  IF pc[c] = "awaiting" /\ closure'[c].promise.state # "pending"
    THEN /\ pc' = [pc EXCEPT ![c] = "returned"]
         /\ ret' = [ret EXCEPT ![c] = CliCallApi(provider[c], closure'[c].promise)]
    ELSE UNCHANGED <<pc, ret>>

\* callApi(prompt, context, options) of a CLI adapter, up to its await:
\* the executor spawns the child, attaches the listeners and (Codex) writes
\* the prompt.  `how` is what the operating system makes of the spawn, and
\* `queued` whether bytes written to stdin stay queued in the host.
CallApiCli(c, p, pr, a, how, queued) ==
  LET ep == ExecutorPrompt(pr, a.context, a.options) IN
  /\ ~hostCrashed
  /\ c \in CallsOf(harness)
  /\ pc[c] = "idle"
  /\ \A d \in Calls : d < c => pc[d] # "idle"
  /\ provider' = [provider EXCEPT ![c] = p]
  /\ prompt' = [prompt EXCEPT ![c] = pr]
  /\ callArgs' = [callArgs EXCEPT ![c] = a]
  /\ instance' = [instance EXCEPT ![p] = ThisAfterCallApi(@, pr)]
  /\ spawned' = [spawned EXCEPT ![c] = @ \o SpawnsOf(p, ep)]
  /\ IF how \in SyncSpawnErrors
       THEN \* spawn() throws inside the executor: the promise is rejected
            \* with the thrown error and nothing else of the executor runs
            /\ queued = FALSE
            /\ closure' = [closure EXCEPT ![c] =
                 [NewClosure EXCEPT !.promise =
                    Reject(SpawnErrorMessage(SpawnOf(p, ep).file, how))]]
            /\ ret' = [ret EXCEPT ![c] = CliCallApi(p, closure'[c].promise)]
            /\ pc' = [pc EXCEPT ![c] = "returned"]
            /\ executorLog' = [executorLog EXCEPT ![c] = ExecutorOf(p, TRUE)]
            /\ UNCHANGED <<listeners, stdinOps, child>>
       ELSE /\ queued \in {FALSE, StdinOpsOf(p, ep) # <<>>}
            /\ closure' = [closure EXCEPT ![c] = NewClosure]
            /\ listeners' = [listeners EXCEPT ![c] = ListenersOf(p)]
            /\ executorLog' = [executorLog EXCEPT ![c] = ExecutorOf(p, FALSE)]
            /\ stdinOps' = [stdinOps EXCEPT ![c] = StdinOpsOf(p, ep)]
            /\ child' = [child EXCEPT ![c] =
                 [NoChild EXCEPT !.start = IF how = "ok" THEN "running" ELSE how,
                                 !.stdinQueued = queued]]
            /\ pc' = [pc EXCEPT ![c] = "awaiting"]
            /\ UNCHANGED ret
  /\ UNCHANGED <<harness, script, env, ctorOptions, request,
                 outChunks, errChunks, events, hostCrashed>>

\* callApi of the HTTP adapter, up to its await of client.messages.create.
CallApiHttp(c, pr, a) ==
  /\ ~hostCrashed
  /\ c \in CallsOf(harness)
  /\ pc[c] = "idle"
  /\ \A d \in Calls : d < c => pc[d] # "idle"
  /\ provider' = [provider EXCEPT ![c] = ClaudeCode]
  /\ prompt' = [prompt EXCEPT ![c] = pr]
  /\ callArgs' = [callArgs EXCEPT ![c] = a]
  /\ request' = [request EXCEPT ![c] =
       ClaudeCodeRequest(instance[ClaudeCode], pr, a.context, a.options)]
  /\ instance' = [instance EXCEPT ![ClaudeCode] = ThisAfterCallApi(@, pr)]
  /\ pc' = [pc EXCEPT ![c] = "awaiting"]
  /\ UNCHANGED <<harness, script, executorLog, env, ctorOptions,
                 closure, ret, spawned, listeners, stdinOps, child,
                 outChunks, errChunks, events, hostCrashed>>

\* client.messages.create settles and callApi runs to its return.
HttpSettle(c, outcome) ==
  /\ ~hostCrashed
  /\ pc[c] = "awaiting"
  /\ provider[c] = ClaudeCode
  /\ closure' = [closure EXCEPT ![c].promise =
       IF outcome.kind = "response" THEN Resolve(outcome.response)
       ELSE Reject(outcome.message)]
  /\ ret' = [ret EXCEPT ![c] = ClaudeCodeCallApi(outcome)]
  /\ pc' = [pc EXCEPT ![c] = "returned"]
  /\ UNCHANGED <<harness, script, executorLog, env, ctorOptions, instance, callArgs, request,
                provider, prompt, spawned, listeners, stdinOps, child,
                 outChunks, errChunks, events, hostCrashed>>

RECURSIVE SumWritten(_)
SumWritten(S) ==
  IF S = {} THEN 0
  ELSE LET c == CHOOSE x \in S : TRUE IN child[c].written + SumWritten(S \ {c})

\* The bytes written so far by all children.
TotalWritten == SumWritten(Calls)

\* The child writes one byte to its stdout.
ChildWriteStdout(c, b) ==
  /\ ~hostCrashed
  /\ child[c].start = "running"
  /\ TotalWritten < MaxBytes
  /\ child' = [child EXCEPT ![c].out = @ \o <<b>>, ![c].written = @ + 1]
  /\ UNCHANGED <<harness, script, executorLog, env, ctorOptions, instance, callArgs, request,
                pc, provider, prompt, closure, ret, spawned, listeners,
                 stdinOps, outChunks, errChunks, events, hostCrashed>>

\* The child writes one byte to its stderr.
ChildWriteStderr(c, b) ==
  /\ ~hostCrashed
  /\ child[c].start = "running"
  /\ TotalWritten < MaxBytes
  /\ child' = [child EXCEPT ![c].err = @ \o <<b>>, ![c].written = @ + 1]
  /\ UNCHANGED <<harness, script, executorLog, env, ctorOptions, instance, callArgs, request,
                pc, provider, prompt, closure, ret, spawned, listeners,
                 stdinOps, outChunks, errChunks, events, hostCrashed>>

\* The child reads its stdin to the end: nothing stays queued in the host.
ChildReadStdin(c) ==
  /\ ~hostCrashed
  /\ child[c].start = "running"
  /\ child[c].stdinQueued
  /\ child' = [child EXCEPT ![c].stdinQueued = FALSE]
  /\ UNCHANGED <<harness, script, executorLog, env, ctorOptions, instance, callArgs, request,
                pc, provider, prompt, closure, ret, spawned, listeners,
                 stdinOps, outChunks, errChunks, events, hostCrashed>>

\* The child exits with a code, or is ended by a signal.
ChildExit(c, code) ==
  /\ ~hostCrashed
  /\ child[c].start = "running"
  /\ child' = [child EXCEPT ![c].start = "exited", ![c].code = code]
  /\ UNCHANGED <<harness, script, executorLog, env, ctorOptions, instance, callArgs, request,
                pc, provider, prompt, closure, ret, spawned, listeners,
                 stdinOps, outChunks, errChunks, events, hostCrashed>>

\* The child stops for good without exiting (it waits for input that never
\* comes): it writes nothing more and never ends.
ChildHang(c) ==
  /\ ~hostCrashed
  /\ child[c].start = "running"
  /\ ~child[c].stdinQueued
  /\ child' = [child EXCEPT ![c].start = "hung"]
  /\ UNCHANGED <<harness, script, executorLog, env, ctorOptions, instance, callArgs, request,
                pc, provider, prompt, closure, ret, spawned, listeners,
                 stdinOps, outChunks, errChunks, events, hostCrashed>>

\* A 'data' event of the child's stdout: every byte now in the pipe, as one
\* chunk.
StdoutData(c) ==
  /\ ~hostCrashed
  /\ "stdout.data" \in listeners[c]
  /\ child[c].out # <<>>
  /\ closure' = OnStdoutData(closure, c, child[c].out)
  /\ Resume(c)
  /\ outChunks' = [outChunks EXCEPT ![c] = Append(@, child[c].out)]
  /\ child' = [child EXCEPT ![c].out = <<>>]
  /\ UNCHANGED <<harness, script, executorLog, env, ctorOptions, instance, callArgs, request,
                provider, prompt, spawned, listeners,
                 stdinOps, errChunks, events, hostCrashed>>

\* A 'data' event of the child's stderr.
StderrData(c) ==
  /\ ~hostCrashed
  /\ "stderr.data" \in listeners[c]
  /\ child[c].err # <<>>
  /\ closure' = OnStderrData(closure, c, child[c].err)
  /\ Resume(c)
  /\ errChunks' = [errChunks EXCEPT ![c] = Append(@, child[c].err)]
  /\ child' = [child EXCEPT ![c].err = <<>>]
  /\ UNCHANGED <<harness, script, executorLog, env, ctorOptions, instance, callArgs, request,
                provider, prompt, spawned, listeners,
                 stdinOps, outChunks, events, hostCrashed>>

\* The 'error' event of the child object: the spawn failed.  An event
\* nobody listens to is an uncaught exception.
ErrorEvent(c) ==
  /\ ~hostCrashed
  /\ child[c].start \in AsyncSpawnErrors
  /\ ~Delivered(c, "error")
  /\ events' = [events EXCEPT ![c] = Append(@, [name |-> "error"])]
  /\ IF "error" \in listeners[c]
       THEN /\ closure' = OnErrorEvent(closure, c, provider[c],
                 SpawnErrorMessage(spawned[c][1].file, child[c].start))
            /\ Resume(c)
            /\ UNCHANGED hostCrashed
       ELSE /\ hostCrashed' = TRUE
            /\ UNCHANGED <<pc, closure, ret>>
  /\ UNCHANGED <<harness, script, executorLog, env, ctorOptions, instance, callArgs, request,
                provider, prompt, spawned, listeners, stdinOps, child,
                 outChunks, errChunks>>

\* The code a 'close' event carries: the exit status of a child that ran,
\* the negated errno of a spawn that failed.
CloseCode(ch) == IF ch.start = "exited" THEN ch.code ELSE Num(0 - Errno(ch.start))

\* The 'close' event: the child has ended and its stdout and stderr have
\* been read to the end; after a failed spawn it follows the 'error' event.
\* Whatever was still queued for the child's stdin is dropped.
CloseEvent(c) ==
  /\ ~hostCrashed
  /\ "close" \in listeners[c]
  /\ \/ child[c].start = "exited"
     \/ child[c].start \in AsyncSpawnErrors /\ Delivered(c, "error")
  /\ child[c].out = <<>> /\ child[c].err = <<>>
  /\ ~Delivered(c, "close")
  /\ events' = [events EXCEPT
       ![c] = Append(@, [name |-> "close", code |-> CloseCode(child[c])])]
  /\ child' = [child EXCEPT ![c].stdinQueued = FALSE]
  /\ closure' = OnCloseEvent(closure, c, provider[c], CloseCode(child[c]))
  /\ Resume(c)
  /\ UNCHANGED <<harness, script, executorLog, env, ctorOptions, instance, callArgs, request,
                provider, prompt, spawned, listeners, stdinOps,
                 outChunks, errChunks, hostCrashed>>

\* The 'error' event (EPIPE) of the child's stdin stream: bytes of the
\* prompt were still queued when the child ended, or the child never
\* started.  With no listener on that stream the event is an uncaught
\* exception and the host process dies.
StdinError(c) ==
  /\ ~hostCrashed
  /\ child[c].stdinQueued
  /\ child[c].start \in {"exited"} \cup AsyncSpawnErrors
  /\ hostCrashed' = ("stdin.error" \notin listeners[c])
  /\ child' = [child EXCEPT ![c].stdinQueued = FALSE]
  /\ UNCHANGED <<harness, script, executorLog, env, ctorOptions, instance, callArgs, request,
                pc, provider, prompt, closure, ret, spawned, listeners,
                 stdinOps, outChunks, errChunks, events>>

\* The steps of the child of invocation c and of the callbacks of c.
ChildStep(c) ==
  \/ \E b \in OutBytesOf(harness) : ChildWriteStdout(c, b)
  \/ \E b \in ErrBytesOf(harness) : ChildWriteStderr(c, b)
  \/ ChildReadStdin(c)
  \/ \E code \in ExitCodesOf(harness) : ChildExit(c, code)

CallbackStep(c) ==
  \/ \E outcome \in HttpOutcomesOf(harness) : HttpSettle(c, outcome)
  \/ StdoutData(c)
  \/ StderrData(c)
  \/ ErrorEvent(c)
  \/ CloseEvent(c)
  \/ StdinError(c)

Next ==
  \/ \E c \in Calls, p \in CliProviders, how \in SpawnOutcomesOf(harness),
        queued \in BOOLEAN, a \in CallArgsOf(harness) :
       \E pr \in PromptsOf(harness, c) : CallApiCli(c, p, pr, a, how, queued)
  \/ \E c \in Calls, a \in CallArgsOf(harness) :
       \E pr \in PromptsOf(harness, c) : CallApiHttp(c, pr, a)
  \/ \E c \in Calls : ChildStep(c)
  \/ \E c \in Calls : ChildHang(c)
  \/ \E c \in Calls : CallbackStep(c)

Spec == Init /\ [][Next]_vars

SpecParallel == InitParallel /\ [][Next]_vars

\* ------------------------------------------------- the echo stub command

\* A string as the bytes a pipe or an argument vector carries (UTF-8).
Utf8Bytes(ch) ==
  CASE ch = " " -> <<32>>
    [] ch = "\n" -> <<10>>
    [] ch = "a" -> <<97>>
    [] ch = "e'" -> <<195, 169>>
    [] OTHER -> <<63>>

RECURSIVE StringToBuffer(_)
StringToBuffer(text) ==
  IF text = <<>> THEN <<>> ELSE Utf8Bytes(Head(text)) \o StringToBuffer(Tail(text))

\* The prompts given to the echo stub: at most MaxBytes bytes each.
EchoPrompts ==
  {<<>>, <<"a">>, <<" ", "a">>, <<"a", " ", "a">>, <<"a", "\n">>, <<"e'">>,
   <<"e'", " ">>, <<"a", "e'">>}

\* All data written to the child's stdin, in order.
RECURSIVE StdinPayload(_)
StdinPayload(ops) ==
  IF ops = <<>> THEN <<>>
  ELSE IF Head(ops).op = "write"
    THEN StringToBuffer(Head(ops).data) \o StdinPayload(Tail(ops))
    ELSE StdinPayload(Tail(ops))

\* The prompt as the stub of invocation c is given it: what arrives on its
\* stdin when that is a pipe, the last argument of its command line when
\* stdin is inherited.
EchoInput(c) ==
  LET sp == spawned[c][1]
  IN IF sp.stdio[1] = "pipe" THEN StdinPayload(stdinOps[c])
     ELSE StringToBuffer(sp.args[Len(sp.args)])

\* The stub writes the next byte of its input to stdout, once it has read
\* its stdin to the end.
EchoWrite(c) ==
  /\ harness = "echo"
  /\ child[c].start = "running"
  /\ ~child[c].stdinQueued
  /\ child[c].written < Len(EchoInput(c))
  /\ ChildWriteStdout(c, EchoInput(c)[child[c].written + 1])

\* The stub exits with code 0 after it has written all of its input.
EchoExit(c) ==
  /\ harness = "echo"
  /\ child[c].start = "running"
  /\ ~child[c].stdinQueued
  /\ child[c].written = Len(EchoInput(c))
  /\ ChildExit(c, Num(0))

InitEcho == harness = "echo" /\ InitCalls

NextEcho ==
  \/ \E c \in Calls, p \in CliProviders, pr \in EchoPrompts, queued \in BOOLEAN,
        a \in CallArgsOf(harness) :
       CallApiCli(c, p, pr, a, "ok", queued)
  \/ \E c \in Calls : ChildReadStdin(c)
  \/ \E c \in Calls : EchoWrite(c)
  \/ \E c \in Calls : EchoExit(c)
  \/ \E c \in Calls : StdoutData(c)
  \/ \E c \in Calls : CloseEvent(c)

SpecEcho == InitEcho /\ [][NextEcho]_vars

\* ------------------------------------------ adapters built with options

\* A harness that builds the three adapters with any of ConfigOptions and
\* then makes two invocations, on any of them, whose children only exit.
InitConfig == harness = "config" /\ InitCalls

NextConfig ==
  \/ \E c \in Calls, p \in CliProviders, a \in CallArgsOf(harness) :
       \E pr \in PromptsOf(harness, c) : CallApiCli(c, p, pr, a, "ok", FALSE)
  \/ \E c \in Calls, a \in CallArgsOf(harness) :
       \E pr \in PromptsOf(harness, c) : CallApiHttp(c, pr, a)
  \/ \E c \in Calls, outcome \in HttpOutcomesOf(harness) : HttpSettle(c, outcome)
  \/ \E c \in Calls, code \in ExitCodesOf(harness) : ChildExit(c, code)
  \/ \E c \in Calls : CloseEvent(c)

SpecConfig == InitConfig /\ [][NextConfig]_vars

\* ---------------------------------------------------- test-claude-direct.js

\* The state of the adapters, which the script does not touch.
adapterVars ==
  <<harness, executorLog, env, ctorOptions, instance, callArgs, request, pc, provider, prompt,
    closure, ret, spawned, listeners, stdinOps, child, outChunks, errChunks,
    events, hostCrashed>>

\* The script's process is alive: process.exit has not been called.
ScriptAlive == harness = "script" /\ script.exitStatus = Null

ScriptLog(s, line) == [s EXCEPT !.console = Append(@, line)]

\* claude.stdout.on('data', ...): print the chunk, append it.
ScriptOnStdoutData(s, data) ==
  [ScriptLog(s, <<"STDOUT: ">> \o BufferToString(data)) EXCEPT
     !.stdout = @ \o BufferToString(data)]

\* claude.stderr.on('data', ...)
ScriptOnStderrData(s, data) ==
  [ScriptLog(s, <<"STDERR: ">> \o BufferToString(data)) EXCEPT
     !.stderr = @ \o BufferToString(data)]

\* claude.on('close', (code) => { ... }): the last line is the success
\* message (a check mark and "Success!") or the failure message.
ScriptOnClose(s, code) ==
  [s EXCEPT !.console = @ \o
     <<<<"---">>,
       <<"Exit code: ">> \o NumberToString(code),
       <<"Final stdout: \"">> \o Trim(s.stdout) \o <<"\"">>,
       <<"Final stderr: \"">> \o Trim(s.stderr) \o <<"\"">>,
       IF code = Num(0) THEN <<"Success!">> ELSE <<"Failed!">>>>]

\* claude.on('error', (error) => { ... })
ScriptOnError(s, message) == ScriptLog(s, <<"Spawn error: ">> \o message)

\* The callback of setTimeout(..., 30000): print the timeout message, kill
\* the child, exit with status 1.  Nothing clears the timer, so it runs
\* 30 seconds after the start whatever happened before.
ScriptOnTimeout(s) ==
  [ScriptLog(s, <<"Timeout - killing process">>) EXCEPT
     !.child = IF @ = "running" THEN "killed" ELSE @,
     !.timer = "fired",
     !.exitStatus = Num(1)]

ScriptChildWriteStdout(b) ==
  /\ ScriptAlive
  /\ script.child = "running"
  /\ script.written < MaxBytes
  /\ script' = [script EXCEPT !.out = @ \o <<b>>, !.written = @ + 1]
  /\ UNCHANGED adapterVars

ScriptChildWriteStderr(b) ==
  /\ ScriptAlive
  /\ script.child = "running"
  /\ script.written < MaxBytes
  /\ script' = [script EXCEPT !.err = @ \o <<b>>, !.written = @ + 1]
  /\ UNCHANGED adapterVars

ScriptChildExit(code) ==
  /\ ScriptAlive
  /\ script.child = "running"
  /\ script' = [script EXCEPT !.child = "exited", !.code = code]
  /\ UNCHANGED adapterVars

ScriptStdoutData ==
  /\ ScriptAlive
  /\ script.out # <<>>
  /\ script' = [ScriptOnStdoutData(script, script.out) EXCEPT !.out = <<>>]
  /\ UNCHANGED adapterVars

ScriptStderrData ==
  /\ ScriptAlive
  /\ script.err # <<>>
  /\ script' = [ScriptOnStderrData(script, script.err) EXCEPT !.err = <<>>]
  /\ UNCHANGED adapterVars

\* The 'error' event of a failed spawn.
ScriptErrorEvent ==
  /\ ScriptAlive
  /\ script.child \in AsyncSpawnErrors
  /\ script.events = <<>>
  /\ script' = [ScriptOnError(script, SpawnErrorMessage("claude", script.child))
                  EXCEPT !.events = Append(@, [name |-> "error"])]
  /\ UNCHANGED adapterVars

\* The 'close' event: the child has ended and its pipes are read to the end.
ScriptCloseEvent ==
  /\ ScriptAlive
  /\ \/ script.child = "exited"
     \/ script.child \in AsyncSpawnErrors /\ script.events # <<>>
  /\ script.out = <<>> /\ script.err = <<>>
  /\ \A i \in DOMAIN script.events : script.events[i].name # "close"
  /\ LET code == IF script.child = "exited" THEN script.code
                 ELSE Num(0 - Errno(script.child))
     IN script' = [ScriptOnClose(script, code) EXCEPT
                     !.events = Append(@, [name |-> "close", code |-> code])]
  /\ UNCHANGED adapterVars

\* 30000 ms after the start the timer fires.
ScriptTimeout ==
  /\ ScriptAlive
  /\ script.timer = "armed"
  /\ script' = ScriptOnTimeout(script)
  /\ UNCHANGED adapterVars

InitScript == harness = "script" /\ InitCalls

NextScript ==
  \/ \E b \in OutBytes : ScriptChildWriteStdout(b)
  \/ \E b \in ErrBytes : ScriptChildWriteStderr(b)
  \/ \E code \in ExitCodes : ScriptChildExit(code)
  \/ ScriptStdoutData
  \/ ScriptStderrData
  \/ ScriptErrorEvent
  \/ ScriptCloseEvent
  \/ ScriptTimeout

SpecScript == InitScript /\ [][NextScript]_vars

\* ----------------------------------------------------------------- claims

IsCli(c) == provider[c] \in CliProviders

\* The text of a sequence of chunks, each decoded on its own as the 'data'
\* listeners do.
RECURSIVE TextOfChunks(_)
TextOfChunks(chunks) ==
  IF chunks = <<>> THEN <<>>
  ELSE BufferToString(Head(chunks)) \o TextOfChunks(Tail(chunks))

\* part occurs in text as a run of consecutive elements.
Contains(text, part) ==
  \E i \in 0..(Len(text) - Len(part)) :
    \A k \in 1..Len(part) : text[i + k] = part[k]

\* s is t without its leading and trailing white space, and nothing else
\* removed.
IsTrimOf(s, t) ==
  \E i \in 1..(Len(t) + 1), j \in 0..Len(t) :
    /\ s = SubSeq(t, i, j)
    /\ \A k \in 1..Len(t) : (k < i \/ k > j) => IsWhiteSpace(t[k])
    /\ s # <<>> => ~IsWhiteSpace(s[1]) /\ ~IsWhiteSpace(s[Len(s)])

IsSuccess(r) == DOMAIN r = {"output", "tokenUsage"}

IsFailure(r) == DOMAIN r = {"error"}

\* The 'close' event of c has been delivered with this code, and no 'error'
\* event before it: the child ran and ended.
ClosedWith(c, code) ==
  /\ IsCli(c)
  /\ events[c] = <<[name |-> "close", code |-> code]>>

\* C1: in both CLI adapters, once the child has closed with exit code 0 and
\* no 'error' event came before, callApi has returned a success record whose
\* output is the text of all stdout chunks delivered, in order, without its
\* leading and trailing white space, and whose tokenUsage is all zero.
C1_SuccessOnExitZero ==
  \A c \in Calls :
    ClosedWith(c, Num(0)) =>
      /\ pc[c] = "returned"
      /\ IsSuccess(ret[c])
      /\ IsTrimOf(ret[c].output, TextOfChunks(outChunks[c]))
      /\ ret[c].tokenUsage = [total |-> 0, prompt |-> 0, completion |-> 0]

\* C1 witness: a Codex call that returned after exit code 0, its stdout
\* delivered in two chunks with white space around a non-empty answer.
C1_Witness ==
  \E c \in Calls :
    /\ provider[c] = CodexCli
    /\ ClosedWith(c, Num(0))
    /\ pc[c] = "returned"
    /\ Len(outChunks[c]) = 2
    /\ ret[c].output # <<>>
    /\ Len(ret[c].output) < Len(TextOfChunks(outChunks[c]))

\* C2: in both CLI adapters, once a child that ran has closed with a code
\* N other than 0, callApi has returned a failure record whose message
\* contains N and the text of all stderr chunks, in arrival order, and the
\* record has no output field.
C2_FailureOnNonZeroExit ==
  \A c \in Calls, code \in ExitCodes \ {Num(0)} :
    ClosedWith(c, code) =>
      /\ pc[c] = "returned"
      /\ IsFailure(ret[c])
      /\ Contains(ret[c].error, NumberToString(code))
      /\ Contains(ret[c].error, TextOfChunks(errChunks[c]))
      /\ "output" \notin DOMAIN ret[c]

\* C2 witness: a call that returned after exit code 1 with two stderr
\* chunks of different text.
C2_Witness ==
  \E c \in Calls :
    /\ ClosedWith(c, Num(1))
    /\ pc[c] = "returned"
    /\ Len(errChunks[c]) = 2
    /\ errChunks[c][1] # errChunks[c][2]

\* C3: in every CLI adapter, once a child that ran has closed with a
\* non-zero code without having written anything to stderr, the failure
\* message holds the code and the placeholder for missing diagnostic text.
C3_PlaceholderWithoutStderr ==
  \A c \in Calls, code \in ExitCodes \ {Num(0), Null} :
    (ClosedWith(c, code) /\ errChunks[c] = <<>>) =>
      /\ IsFailure(ret[c])
      /\ Contains(ret[c].error, NumberToString(code))
      /\ Contains(ret[c].error, NoStderr)

SpawnFailed(c) == IsCli(c) /\ child[c].start \in AsyncSpawnErrors

\* C4: when the binary cannot be started, callApi of both CLI adapters
\* resolves to a failure record that holds the message of the spawn error
\* behind "Failed to spawn", not an "exited with code" message: it has done
\* so once the 'error' event is delivered, whatever follows, and until then
\* that event can still be delivered.
C4_SpawnFailureResolves ==
  \A c \in Calls :
    SpawnFailed(c) =>
      IF Delivered(c, "error")
        THEN /\ pc[c] = "returned"
             /\ IsFailure(ret[c])
             /\ \E file \in {"claude", "codex"} :
                  /\ spawned[c][1].file = file
                  /\ Contains(ret[c].error,
                       OnError(provider[c], SpawnErrorMessage(file, child[c].start)).message)
                  /\ Contains(ret[c].error, <<"spawn ", file, " ", child[c].start>>)
             /\ \A k \in DOMAIN ret[c].error :
                  ret[c].error[k] \notin
                    {"Claude exited with code ", "Codex exited with code "}
        ELSE ENABLED ErrorEvent(c)

\* C5: no failure of a child or of its streams crashes the host: no event
\* is delivered to a stream without a listener, so the host never dies of
\* an uncaught exception.
C5_NoCrash == ~hostCrashed

\* C6: every record callApi returns, in all three adapters, is either
\* {output, tokenUsage} or {error}; exit code 0 with empty or
\* white-space-only stdout gives output '' and no error field.
C6_RecordShape ==
  \A c \in Calls :
    /\ pc[c] = "returned" => IsSuccess(ret[c]) \/ IsFailure(ret[c])
    /\ pc[c] # "returned" => ret[c] = NoRecord
    /\ (ClosedWith(c, Num(0))
          /\ \A k \in DOMAIN TextOfChunks(outChunks[c]) :
               IsWhiteSpace(TextOfChunks(outChunks[c])[k]))
       => IsSuccess(ret[c]) /\ ret[c].output = <<>>

\* C6 witness: a CLI call that returned after exit code 0 with nothing but
\* white space on stdout.
C6_Witness ==
  \E c \in Calls :
    /\ ClosedWith(c, Num(0))
    /\ pc[c] = "returned"
    /\ outChunks[c] # <<>>
    /\ ret[c].output = <<>>

\* C7: an invocation of a CLI adapter calls spawn() exactly once, whatever
\* its outcome.
C7_ExactlyOneSpawn ==
  \A c \in Calls : IsCli(c) => Len(spawned[c]) = 1

\* C7 witness: a call that has failed with a non-zero exit (nothing was
\* spawned again).
C7_Witness ==
  \E c \in Calls :
    /\ ClosedWith(c, Num(1))
    /\ pc[c] = "returned"
    /\ IsFailure(ret[c])
    /\ Len(spawned[c]) = 1

\* What a call returns, from the events and chunks of its own child alone.
OwnResult(c) ==
  IF events[c] # <<>> /\ events[c][1].name = "error"
    THEN CliCallApi(provider[c],
           OnError(provider[c], SpawnErrorMessage(spawned[c][1].file, child[c].start)))
    ELSE CliCallApi(provider[c],
           OnClose(provider[c], events[c][1].code,
                   TextOfChunks(outChunks[c]), TextOfChunks(errChunks[c])))

\* C8: with two invocations in flight at once, under every interleaving of
\* their children's events, a call returns only on an event of its own
\* child, and its record is the one its own child's chunks and exit code
\* give.
C8_NoCrossTalk ==
  \A c \in Calls :
    IsCli(c) =>
      /\ (pc[c] = "returned" /\ child[c].start # "none") =>
           (events[c] # <<>> /\ ret[c] = OwnResult(c))
      /\ (pc[c] = "awaiting") => events[c] = <<>>

\* C8 witness: call 1 is still waiting and has received stdout, call 2,
\* made after it on the same adapter, has returned a success with another
\* text.
C8_Witness ==
  /\ provider[1] = provider[2]
  /\ IsCli(1)
  /\ pc[1] = "awaiting"
  /\ closure[1].stdout # <<>>
  /\ pc[2] = "returned"
  /\ IsSuccess(ret[2])
  /\ ret[2].output # <<>>
  /\ ret[2].output # Trim(closure[1].stdout)

\* An invocation that waits while nothing of its own can happen any more.
WaitsForever(c) ==
  /\ pc[c] = "awaiting"
  /\ ~hostCrashed
  /\ ~ENABLED (ChildStep(c) \/ CallbackStep(c))

\* C9 as claimed: no invocation waits forever; a child that does not exit
\* is terminated and the call resolves with a failure.
C9_NeverWaitsForever == \A c \in Calls : ~WaitsForever(c)

\* C9 as the code has it: the CLI adapters set no wait bound.  A call
\* returns only once an 'error' or 'close' event of its child has been
\* delivered (or spawn itself threw), and while the child runs or hangs the
\* call stays pending.
C9_ResolvesOnlyOnChildEnd ==
  \A c \in Calls :
    IsCli(c) =>
      /\ pc[c] = "returned" =>
           (Delivered(c, "error") \/ Delivered(c, "close") \/ child[c].start = "none")
      /\ child[c].start \in {"running", "hung"} =>
           (pc[c] = "awaiting" /\ closure[c].promise = Pending)

\* C9 witness: the child hangs, everything it wrote has been delivered, and
\* the call still waits.
C9_Witness ==
  \E c \in Calls :
    /\ IsCli(c)
    /\ child[c].start = "hung"
    /\ closure[c].stdout # <<>>
    /\ WaitsForever(c)

\* C10: an invocation settles at most once: once its promise is settled,
\* no later event changes the promise, the returned record, or the call's
\* being returned.
C10_SettlesOnce ==
  [][\A c \in Calls :
       closure[c].promise.state # "pending" =>
         /\ closure'[c].promise = closure[c].promise
         /\ ret'[c] = ret[c]
         /\ pc'[c] = pc[c]]_vars

\* C10 witness: a 'close' event was delivered after the 'error' event, and
\* the record is still the one the 'error' event gave.
C10_Witness ==
  \E c \in Calls :
    /\ IsCli(c)
    /\ Len(events[c]) = 2
    /\ events[c][1].name = "error"
    /\ events[c][2].name = "close"
    /\ pc[c] = "returned"
    /\ ret[c] = OwnResult(c)

\* The first event the child object of c delivered was 'error'.
ErrorFirst(c) == IsCli(c) /\ events[c] # <<>> /\ events[c][1].name = "error"

\* C11: in both CLI adapters, once the child object has delivered 'error'
\* before any 'close', callApi has returned the "Failed to spawn" failure,
\* and a 'close' event after it, whatever its code (0 included), leaves the
\* promise and the returned record as they are.
C11_ErrorGoesToFailure ==
  \A c \in Calls :
    ErrorFirst(c) =>
      /\ pc[c] = "returned"
      /\ IsFailure(ret[c])
      /\ \E k \in DOMAIN ret[c].error :
           ret[c].error[k] \in {"Failed to spawn claude: ", "Failed to spawn codex: "}
      /\ \A k \in DOMAIN ret[c].error :
           ret[c].error[k] \notin {"Claude exited with code ", "Codex exited with code "}
      /\ closure[c].promise.state = "rejected"
      /\ \A code \in ExitCodes \cup {CloseCode(child[c])} :
           OnCloseEvent(closure, c, provider[c], code)[c].promise = closure[c].promise

\* C11 witness: a Codex child whose 'error' event was followed by a 'close'
\* event, the call having returned a failure.
C11_Witness ==
  \E c \in Calls :
    /\ provider[c] = CodexCli
    /\ ErrorFirst(c)
    /\ Delivered(c, "close")
    /\ IsFailure(ret[c])

\* C12: on every success record of every adapter, tokenUsage.total, .prompt
\* and .completion are non-negative numbers and total = prompt + completion;
\* the HTTP adapter reports prompt = input_tokens, completion = output_tokens
\* and total = their sum, the two CLI adapters report 0 for all three.
C12_UsageShape ==
  \A c \in Calls :
    (pc[c] = "returned" /\ IsSuccess(ret[c])) =>
      LET u == ret[c].tokenUsage IN
        /\ DOMAIN u = {"total", "prompt", "completion"}
        /\ u.total \in Nat /\ u.prompt \in Nat /\ u.completion \in Nat
        /\ u.total = u.prompt + u.completion
        /\ IsCli(c) => (u.total = 0 /\ u.prompt = 0 /\ u.completion = 0)
        /\ provider[c] = ClaudeCode =>
             /\ u.prompt = closure[c].promise.value.usage.input_tokens
             /\ u.completion = closure[c].promise.value.usage.output_tokens
             /\ u.total = closure[c].promise.value.usage.input_tokens
                            + closure[c].promise.value.usage.output_tokens

\* C12 witness: the HTTP adapter has returned a success whose usage has
\* different, non-zero prompt and completion counts.
C12_Witness ==
  \E c \in Calls :
    /\ provider[c] = ClaudeCode
    /\ pc[c] = "returned"
    /\ IsSuccess(ret[c])
    /\ ret[c].tokenUsage.prompt > 0
    /\ ret[c].tokenUsage.completion > ret[c].tokenUsage.prompt

\* C13: with a stub command that echoes the prompt it is given and exits 0,
\* callApi(p) of each CLI adapter returns, for every prompt p, a success
\* record whose output is p without its surrounding white space.
C13_EchoReturnsPrompt ==
  \A c \in Calls :
    (harness = "echo" /\ ClosedWith(c, Num(0))) =>
      /\ pc[c] = "returned"
      /\ IsSuccess(ret[c])
      /\ IsTrimOf(ret[c].output, prompt[c])

C15_ClaudePromptOnStdin ==
  \A c \in Calls :
    (provider[c] = ClaudeCli /\ child[c].start # "none") =>
      /\ spawned[c][1].stdio[1] = "pipe"
      /\ \E k \in DOMAIN stdinOps[c] :
           stdinOps[c][k] = [op |-> "write", data |-> prompt[c]]

\* The positions of the 'text' blocks of a response body.
TextPositions(content) == {i \in DOMAIN content : content[i].type = "text"}

\* text is the texts of the blocks at the positions S, in rising order of
\* position, with one "\n" between each two.
RECURSIVE IsJoinOf(_, _, _)
IsJoinOf(text, content, S) ==
  IF S = {} THEN text = <<>>
  ELSE LET i == CHOOSE x \in S : \A y \in S : x <= y
           t == content[i].text
       IN IF S = {i} THEN text = t
          ELSE /\ Len(text) > Len(t)
               /\ SubSeq(text, 1, Len(t)) = t
               /\ text[Len(t) + 1] = "\n"
               /\ IsJoinOf(SubSeq(text, Len(t) + 2, Len(text)), content, S \ {i})

\* The HTTP call c has returned for a response that has a body and usage.
HttpSucceeded(c) ==
  /\ provider[c] = ClaudeCode
  /\ pc[c] = "returned"
  /\ closure[c].promise.state = "fulfilled"
  /\ {"content", "usage"} \subseteq DOMAIN closure[c].promise.value

\* C16: in the HTTP adapter, for every successful response, the output is
\* the text of the blocks of type 'text', in their order, joined by single
\* newlines; other blocks add nothing, and no text block gives ''.
C16_TextBlocksJoined ==
  \A c \in Calls :
    HttpSucceeded(c) =>
      LET content == closure[c].promise.value.content IN
        /\ IsSuccess(ret[c])
        /\ IsJoinOf(ret[c].output, content, TextPositions(content))
        /\ TextPositions(content) = {} => ret[c].output = <<>>

\* C16 witness: a returned response of three blocks, the middle one not a
\* text block, gave the two texts with one newline between.
C16_Witness ==
  \E c \in Calls :
    /\ HttpSucceeded(c)
    /\ Len(closure[c].promise.value.content) = 3
    /\ closure[c].promise.value.content[2].type # "text"
    /\ ret[c].output = <<"h", "\n", "i", " ">>

\* C17: in the HTTP adapter, every error raised while the message is
\* created or the response is read ends as a returned record that has the
\* one field error, "Claude Code error: " followed by the error's message
\* exactly as raised; callApi returns a record in every case.
C17_HttpErrorsReturned ==
  \A c \in Calls :
    (provider[c] = ClaudeCode /\ pc[c] = "returned") =>
      LET pr == closure[c].promise IN
        /\ IsSuccess(ret[c]) \/ IsFailure(ret[c])
        /\ pr.state = "rejected" =>
             ret[c] = [error |-> <<"Claude Code error: ">> \o pr.message]
        /\ (pr.state = "fulfilled" /\ "content" \notin DOMAIN pr.value) =>
             ret[c] = [error |-> <<"Claude Code error: ",
                         "Cannot read properties of undefined (reading '",
                         "filter", "')">>]
        /\ (pr.state = "fulfilled" /\ "content" \in DOMAIN pr.value
              /\ "usage" \notin DOMAIN pr.value) =>
             ret[c] = [error |-> <<"Claude Code error: ",
                         "Cannot read properties of undefined (reading '",
                         "input_tokens", "')">>]

\* C17 witness: the client raised a quota rejection, and callApi returned
\* it as a failure record.
C17_Witness ==
  \E c \in Calls :
    /\ provider[c] = ClaudeCode
    /\ pc[c] = "returned"
    /\ closure[c].promise = Reject(<<"429 rate_limit_error">>)
    /\ ret[c] = [error |-> <<"Claude Code error: ", "429 rate_limit_error">>]

\* What the HTTP call c returns, from the way its request ended alone.
OwnHttpResult(c) ==
  ClaudeCodeCallApi(
    IF closure[c].promise.state = "fulfilled"
      THEN [kind |-> "response", response |-> closure[c].promise.value]
      ELSE [kind |-> "throw", message |-> closure[c].promise.message])

\* C18: the context and options arguments of callApi are not inspected.
\* The command line, the stdin payload and the HTTP request of a call hold
\* the prompt and the adapter's own configuration only and are the same for
\* every value of the two arguments, and the returned record is the one the
\* child's (or the API's) behaviour gives, whatever the two arguments were.
C18_ArgsNotInspected ==
  \A c \in Calls :
    pc[c] # "idle" =>
      /\ callArgs[c] \in CallArgValues
      /\ \A a \in CallArgValues :
           /\ IsCli(c) =>
                /\ spawned[c] =
                     SpawnsOf(provider[c], ExecutorPrompt(prompt[c], a.context, a.options))
                /\ child[c].start # "none" =>
                     stdinOps[c] =
                       StdinOpsOf(provider[c], ExecutorPrompt(prompt[c], a.context, a.options))
           /\ provider[c] = ClaudeCode =>
                request[c] =
                  ClaudeCodeRequest(instance[ClaudeCode], prompt[c], a.context, a.options)
      /\ IsCli(c) =>
           /\ \A k \in DOMAIN spawned[c][1].args :
                spawned[c][1].args[k] \in {<<"-", "p">>, <<"e", "x", "e", "c">>, <<"-">>, prompt[c]}
           /\ \A k \in DOMAIN stdinOps[c] :
                stdinOps[c][k] \in {[op |-> "write", data |-> prompt[c]], [op |-> "end"]}
           /\ (pc[c] = "returned" /\ child[c].start # "none") => ret[c] = OwnResult(c)
      /\ provider[c] = ClaudeCode =>
           /\ DOMAIN request[c] = {"model", "max_tokens", "temperature", "messages"}
           /\ request[c].messages = <<[role |-> "user", content |-> prompt[c]]>>
           /\ request[c].model = instance[ClaudeCode].model
           /\ pc[c] = "returned" => ret[c] = OwnHttpResult(c)

\* C18 witness: an HTTP call made with an options argument that names a
\* model has returned a success, its request naming the adapter's model.
C18_Witness ==
  \E c \in Calls :
    /\ provider[c] = ClaudeCode
    /\ pc[c] = "returned"
    /\ IsSuccess(ret[c])
    /\ "model" \in DOMAIN callArgs[c].options
    /\ request[c].model # callArgs[c].options.model

\* C19: id() of each adapter returns its constant string in every state,
\* before, during and after callApi invocations and whatever options the
\* adapter was built with; the three strings differ from one another; and
\* label is options.label or the adapter's default, as the constructor set
\* it, in every state.
C19_IdAndLabelFixed ==
  /\ Id(ClaudeCli, instance[ClaudeCli]) = "claude-cli"
  /\ Id(CodexCli, instance[CodexCli]) = "codex-cli"
  /\ Id(ClaudeCode, instance[ClaudeCode]) = "claude-code-subscription"
  /\ \A p, q \in Providers : p # q => Id(p, instance[p]) # Id(q, instance[q])
  /\ \A p \in Providers :
       LET dflt == IF p = ClaudeCli THEN <<"Claude CLI">>
                   ELSE IF p = CodexCli THEN <<"Codex">>
                   ELSE <<"Claude Code">>
       IN instance[p].label =
            IF "label" \in DOMAIN ctorOptions /\ ctorOptions.label # <<>>
              THEN ctorOptions.label ELSE dflt

\* C19 witness: adapters built with a label of the caller's; one call has
\* returned and another is in flight.
C19_Witness ==
  /\ "label" \in DOMAIN ctorOptions
  /\ \E c, d \in Calls :
       /\ pc[c] = "returned"
       /\ pc[d] = "awaiting"
       /\ instance[provider[c]].label = <<"L">>

\* C20: the HTTP adapter sends the configured model, temperature and
\* max_tokens as the caller gave them, and its defaults only for a field
\* the config does not have; a temperature of 0 and a max_tokens of 0 are
\* sent as given.
C20_ConfigVerbatim ==
  \A c \in Calls :
    (provider[c] = ClaudeCode /\ pc[c] # "idle") =>
      LET config == IF "config" \in DOMAIN ctorOptions THEN ctorOptions.config
                    ELSE EmptyObject
      IN /\ request[c].model =
              IF "model" \in DOMAIN config THEN config.model
              ELSE <<"claude-sonnet-4-20250514">>
         /\ request[c].temperature =
              IF "temperature" \in DOMAIN config THEN config.temperature ELSE 7
         /\ request[c].max_tokens =
              IF "max_tokens" \in DOMAIN config THEN config.max_tokens ELSE 2000

\* C21: the Claude Code provider authenticates with CLAUDE_CODE_OAUTH_TOKEN
\* whenever that variable is set: for every combination of the three
\* variables, the auth token handed to the client is the value of
\* CLAUDE_CODE_OAUTH_TOKEN if it is set, and ANTHROPIC_AUTH_TOKEN is used
\* only when it is not.
C21_OAuthTokenFirst ==
  /\ "CLAUDE_CODE_OAUTH_TOKEN" \in DOMAIN env =>
       instance[ClaudeCode].client.authToken = Str(env["CLAUDE_CODE_OAUTH_TOKEN"])
  /\ ("CLAUDE_CODE_OAUTH_TOKEN" \notin DOMAIN env
        /\ "ANTHROPIC_AUTH_TOKEN" \in DOMAIN env) =>
       instance[ClaudeCode].client.authToken = Str(env["ANTHROPIC_AUTH_TOKEN"])

\* The number of bytes in a sequence of chunks.
RECURSIVE BytesIn(_)
BytesIn(chunks) ==
  IF chunks = <<>> THEN 0 ELSE Len(Head(chunks)) + BytesIn(Tail(chunks))

\* C22: on the success path the child is fully consumed before the call
\* resolves.  A CLI call that has returned a success did so on the 'close'
\* event; the child had ended, every byte it wrote had been delivered and
\* every stdout chunk appended to the buffer by then; and no chunk of that
\* child can be delivered afterwards.
C22_ConsumedBeforeResolve ==
  \A c \in Calls :
    (IsCli(c) /\ pc[c] = "returned" /\ IsSuccess(ret[c])) =>
      /\ events[c] = <<[name |-> "close", code |-> Num(0)]>>
      /\ child[c].start = "exited"
      /\ child[c].out = <<>>
      /\ BytesIn(outChunks[c]) + BytesIn(errChunks[c]) = child[c].written
      /\ closure[c].stdout = TextOfChunks(outChunks[c])
      /\ ~ENABLED StdoutData(c)
      /\ ~ENABLED StderrData(c)

\* C22 witness: a Claude call has returned a success after three stdout
\* chunks.
C22_Witness ==
  \E c \in Calls :
    /\ provider[c] = ClaudeCli
    /\ pc[c] = "returned"
    /\ IsSuccess(ret[c])
    /\ Len(outChunks[c]) = 3

\* The bytes of a sequence of chunks, as one chunk.
RECURSIVE Flatten(_)
Flatten(chunks) ==
  IF chunks = <<>> THEN <<>> ELSE Head(chunks) \o Flatten(Tail(chunks))

\* C23: the output of a CLI adapter depends only on the bytes the child
\* wrote to stdout, not on how they were cut into 'data' chunks: the output
\* returned is the one the same bytes give when they arrive as one chunk.
C23_ChunkingIrrelevant ==
  \A c \in Calls :
    (IsCli(c) /\ pc[c] = "returned" /\ IsSuccess(ret[c])) =>
      IsTrimOf(ret[c].output, BufferToString(Flatten(outChunks[c])))

\* C24: when the child is ended by a signal, so that 'close' comes with a
\* null code, both CLI adapters return a failure record, never a success:
\* a success is returned only for a close code that is the number 0.
C24_SignalIsFailure ==
  \A c \in Calls :
    /\ ClosedWith(c, Null) =>
         /\ pc[c] = "returned"
         /\ IsFailure(ret[c])
         /\ Contains(ret[c].error, <<"n", "u", "l", "l">>)
    /\ (IsCli(c) /\ pc[c] = "returned" /\ IsSuccess(ret[c])) =>
         (events[c] # <<>> /\ events[c][1].name = "close" /\ events[c][1].code = Num(0))

\* C24 witness: a Claude child wrote an answer to stdout and was then ended
\* by a signal; the call returned a failure.
C24_Witness ==
  \E c \in Calls :
    /\ provider[c] = ClaudeCli
    /\ ClosedWith(c, Null)
    /\ closure[c].stdout # <<>>
    /\ IsFailure(ret[c])

\* C25: when the child closes with exit code 0 the CLI adapters return a
\* success whatever the child wrote to stderr: the record has the fields
\* output and tokenUsage alone, the output is the stdout text, and nothing
\* of the stderr text is in it.
C25_StderrIgnoredOnSuccess ==
  \A c \in Calls :
    (ClosedWith(c, Num(0)) /\ errChunks[c] # <<>>) =>
      /\ pc[c] = "returned"
      /\ DOMAIN ret[c] = {"output", "tokenUsage"}
      /\ IsTrimOf(ret[c].output, TextOfChunks(outChunks[c]))
      /\ ret[c].tokenUsage = [total |-> 0, prompt |-> 0, completion |-> 0]
      /\ \A k \in DOMAIN ret[c].output :
           \A i \in DOMAIN closure[c].stderr : ret[c].output[k] # closure[c].stderr[i]

\* C25 witness: a Codex child wrote to stdout and to stderr and exited
\* with code 0; the call returned a success with a non-empty output.
C25_Witness ==
  \E c \in Calls :
    /\ provider[c] = CodexCli
    /\ ClosedWith(c, Num(0))
    /\ closure[c].stderr # <<>>
    /\ IsSuccess(ret[c])
    /\ ret[c].output # <<>>

\* C26: callApi leaves the adapter object as the constructor made it: in
\* every state, after any calls that succeeded or failed, config and label
\* (and model and client of the HTTP adapter) are the constructor's; and
\* the stdout and stderr buffers of a call hold the chunks of that call's
\* own child and nothing else, so they are empty until its first chunk.
C26_InstanceUnchanged ==
  /\ \A p \in Providers : instance[p] = Constructor(p, ctorOptions, env)
  /\ DOMAIN instance[ClaudeCli] = {"config", "label"}
  /\ DOMAIN instance[CodexCli] = {"config", "label"}
  /\ DOMAIN instance[ClaudeCode] = {"config", "label", "model", "client"}
  /\ \A c \in Calls :
       (IsCli(c) /\ child[c].start # "none") =>
         /\ closure[c].stdout = TextOfChunks(outChunks[c])
         /\ closure[c].stderr = TextOfChunks(errChunks[c])
         /\ (outChunks[c] = <<>> /\ errChunks[c] = <<>>) =>
              (closure[c].stdout = <<>> /\ closure[c].stderr = <<>>)

\* C26 witness: the first call has failed with text in both of its buffers,
\* and a second call on the same adapter waits with empty buffers.
C26_Witness ==
  /\ IsCli(1)
  /\ provider[1] = provider[2]
  /\ pc[1] = "returned"
  /\ IsFailure(ret[1])
  /\ closure[1].stdout # <<>>
  /\ closure[1].stderr # <<>>
  /\ pc[2] = "awaiting"
  /\ closure[2].stdout = <<>>
  /\ closure[2].stderr = <<>>

\* The script's child has closed with code 0 (before the timer fired:
\* nothing is delivered after process.exit).
ScriptClosedOk ==
  /\ harness = "script"
  /\ \E i \in DOMAIN script.events :
       script.events[i] = [name |-> "close", code |-> Num(0)]

\* C27: in the direct test script the timeout branch runs only when the
\* child has not closed within 30 seconds: a run whose child closes with
\* code 0 before that has the success message, never the timeout message,
\* and never the exit status 1.
C27_TimeoutOnlyWhenNotClosed ==
  ScriptClosedOk =>
    /\ \E i \in DOMAIN script.console : script.console[i] = <<"Success!">>
    /\ \A i \in DOMAIN script.console :
         script.console[i] # <<"Timeout - killing process">>
    /\ script.exitStatus # Num(1)
    /\ script.timer = "armed"

\* The places in the executor of call c where it does `what`.
PlacesOf(c, what) == {i \in DOMAIN executorLog[c] : executorLog[c][i] = what}

AllListeners == {"stdout.data", "stderr.data", "close", "error"}

\* C28: in the Codex adapter the stdout, stderr, 'close' and 'error'
\* listeners are attached before the prompt is written to stdin and stdin
\* is closed, and in both CLI adapters every listener is attached in the
\* synchronous step that spawns the child: whenever a child exists all four
\* listeners exist, and every chunk and event delivered had its listener.
C28_ListenersBeforeStdin ==
  \A c \in Calls :
    (IsCli(c) /\ child[c].start # "none") =>
      /\ executorLog[c][1] = DoSpawn
      /\ \A e \in AllListeners : Cardinality(PlacesOf(c, DoOn(e))) = 1
      /\ listeners[c] = AllListeners
      /\ \A i \in PlacesOf(c, DoStdinWrite) \cup PlacesOf(c, DoStdinEnd) :
           \A e \in AllListeners : \A j \in PlacesOf(c, DoOn(e)) : j < i
      /\ provider[c] = CodexCli =>
           /\ Cardinality(PlacesOf(c, DoStdinWrite)) = 1
           /\ Cardinality(PlacesOf(c, DoStdinEnd)) = 1
           /\ \A i \in PlacesOf(c, DoStdinWrite) : \A j \in PlacesOf(c, DoStdinEnd) : i < j
      /\ provider[c] = ClaudeCli =>
           PlacesOf(c, DoStdinWrite) \cup PlacesOf(c, DoStdinEnd) = {}
      /\ outChunks[c] # <<>> => "stdout.data" \in listeners[c]
      /\ errChunks[c] # <<>> => "stderr.data" \in listeners[c]
      /\ \A i \in DOMAIN events[c] : events[c][i].name \in listeners[c]

\* C28 witness: a Codex child that could not be started: the prompt was
\* written after the listeners were attached, and the 'error' and 'close'
\* events both found their listeners.
C28_Witness ==
  \E c \in Calls :
    /\ provider[c] = CodexCli
    /\ child[c].start \in AsyncSpawnErrors
    /\ Len(executorLog[c]) = 7
    /\ Len(events[c]) = 2
    /\ pc[c] = "returned"

====
